---- MODULE Spec2Model ----
(***************************************************************************)
(* Model of the mcp-wachat send tools (src/src/tools/messages.ts, the      *)
(* version registered by the server entry point): sendMessage,             *)
(* sendLocation, sendImage and sendReaction, each a payload builder in     *)
(* front of the shared helper sendApiRequest.                              *)
(*                                                                         *)
(* JavaScript values are tagged records, so that undefined, null, strings, *)
(* booleans, numbers, arrays and objects stay distinct and property        *)
(* access, optional chaining, truthiness, || and === are computed the way  *)
(* the language computes them.  Message strings are written without        *)
(* accents.                                                                *)
(***************************************************************************)
EXTENDS Integers, Sequences, FiniteSets, TLC

VARIABLES
    config,     \* module constants WACHAT_API_TOKEN and sessionId (read once)
    pc,         \* per call: position of the invocation
    op,         \* per call: tool name the host invoked
    args,       \* per call: the arguments the host received
    requests,   \* per call: sequence of HTTP requests handed to fetch
    response,   \* per call: what the upstream answered so far
    result,     \* per call: the CallToolResult returned by the execute function
    returned,   \* per call: number of results handed back to the host
    stages,     \* per call: the steps of the invocation, in the order they ran
    events      \* the order in which calls were invoked and returned

vars == <<config, pc, op, args, requests, response, result, returned, stages, events>>

-----------------------------------------------------------------------------
(* JavaScript / JSON values *)

Undefined == [t |-> "undefined"]
JNull == [t |-> "null"]
JStr(s) == [t |-> "string", v |-> s]
JBool(b) == [t |-> "boolean", v |-> b]
JNum(n) == [t |-> "number", v |-> n]
JArr(s) == [t |-> "array", items |-> s]
JObj(r) == [t |-> "object", f |-> r]
\* a string given by its graphemes (used for reactionText)
JText(g) == [t |-> "string", graphemes |-> g]

IsJString(x) == x.t = "string"
Nullish(x) == x.t \in {"undefined", "null"}

\* ToBoolean: what `!x`, `x ? a : b` and `x || y` look at
Truthy(x) ==
    CASE x.t = "undefined" -> FALSE
      [] x.t = "null" -> FALSE
      [] x.t = "boolean" -> x.v
      [] x.t = "number" -> x.v # 0
      [] x.t = "string" -> IF "v" \in DOMAIN x THEN x.v # "" ELSE x.graphemes # <<>>
      [] OTHER -> TRUE

\* x || y
Or(x, y) == IF Truthy(x) THEN x ELSE y

\* x.name for a non-nullish x (a nullish x raises a TypeError, see HandleResponse)
GetProp(x, name) ==
    IF x.t = "object" /\ name \in DOMAIN x.f THEN x.f[name] ELSE Undefined

\* x?.name
OptProp(x, name) == IF Nullish(x) THEN Undefined ELSE GetProp(x, name)

\* x?.[0]
OptFirst(x) ==
    CASE Nullish(x) -> Undefined
      [] x.t = "array" -> IF Len(x.items) > 0 THEN x.items[1] ELSE Undefined
      [] OTHER -> GetProp(x, "0")

-----------------------------------------------------------------------------
(* Configuration *)

WACHAT_API_BASE == "https://whatsapp.taptapp.xyz"

\* process.env values: a string (possibly empty) or undefined
Configs ==
    [apiToken : {Undefined, JStr(""), JStr("tok")},
     sessionId : {Undefined, JStr("session-1")}]

\* a slip: only the token is looked at
ConfigMissingTokenOnly(cfg) == ~Truthy(cfg.apiToken)

\* !WACHAT_API_TOKEN || !sessionId
ConfigMissing(cfg) == ~Truthy(cfg.apiToken) \/ ~Truthy(cfg.sessionId)

-----------------------------------------------------------------------------
(* Input schemas (zod), applied by the host before the execute function runs *)

\* bound on the number of graphemes of a reactionText the host may pass
MaxReactionLen == 2

\* graphemes a reactionText is made of: two emoji and a plain letter
Graphemes == {"thumbsup", "heart", "a"}
EmojiGraphemes == {"thumbsup", "heart"}

\* UTF-16 code units of a grapheme (U+1F44D is a surrogate pair)
CodeUnits(g) == IF g = "thumbsup" THEN 2 ELSE 1

RECURSIVE StrLength(_)
\* String.prototype.length of a string given by its graphemes
StrLength(g) == IF g = <<>> THEN 0 ELSE CodeUnits(Head(g)) + StrLength(Tail(g))

\* z.string().emoji(): the whole string is one or more emoji
\* (zod's /^(\p{Extended_Pictographic}|\p{Emoji_Component})+$/u)
ZEmoji(x) ==
    /\ IsJString(x)
    /\ "graphemes" \in DOMAIN x
    /\ Len(x.graphemes) >= 1
    /\ \A i \in 1..Len(x.graphemes) : x.graphemes[i] \in EmojiGraphemes

\* .min(1): at least one UTF-16 code unit
ZMin1(x) == IsJString(x) /\ "graphemes" \in DOMAIN x /\ StrLength(x.graphemes) >= 1

\* z.string().url(): the WHATWG URL parser accepts the string
WellFormedUrls == {"https://example.com/cat.png"}
ZUrl(x) == IsJString(x) /\ "v" \in DOMAIN x /\ x.v \in WellFormedUrls

ZString(x) == IsJString(x)
ZNumber(x) == x.t = "number"
ZOptionalString(x) == x.t = "undefined" \/ IsJString(x)
\* z.boolean().default(false)
ZBooleanDefault(x) == x.t \in {"undefined", "boolean"}
DefaultFalse(x) == IF x.t = "undefined" THEN JBool(FALSE) ELSE x

MessageKeySchema(k) ==
    /\ k.t = "object"
    /\ ZString(GetProp(k, "remoteJid"))
    /\ GetProp(k, "fromMe").t = "boolean"
    /\ ZString(GetProp(k, "id"))
    /\ ZOptionalString(GetProp(k, "participant"))

sendMessageInputSchema(a) ==
    ZString(a.jid) /\ ZString(a.messageText) /\ ZBooleanDefault(a.isGroup)

sendLocationInputSchema(a) ==
    ZString(a.jid) /\ ZNumber(a.latitude) /\ ZNumber(a.longitude)
        /\ ZBooleanDefault(a.isGroup)

sendImageInputSchema(a) ==
    ZString(a.jid) /\ ZUrl(a.imageUrl) /\ ZOptionalString(a.caption)
        /\ ZBooleanDefault(a.isGroup)

sendReactionInputSchema(a) ==
    MessageKeySchema(a.messageKey) /\ ZEmoji(a.reactionText) /\ ZMin1(a.reactionText)
        /\ ZBooleanDefault(a.isGroup)

Ops == {"sendMessage", "sendLocation", "sendImage", "sendReaction"}

\* the host's check of the arguments against the tool's registered inputSchema
InputValid(o, a) ==
    CASE o = "sendMessage" -> sendMessageInputSchema(a)
      [] o = "sendLocation" -> sendLocationInputSchema(a)
      [] o = "sendImage" -> sendImageInputSchema(a)
      [] o = "sendReaction" -> sendReactionInputSchema(a)

\* the parsed input handed to the execute function: isGroup defaulted
ParsedInput(a) == [a EXCEPT !.isGroup = DefaultFalse(a.isGroup)]

(* Arguments the host may receive *)

RECURSIVE SeqsUpTo(_, _)
SeqsUpTo(S, n) ==
    IF n = 0 THEN {<<>>}
    ELSE LET shorter == SeqsUpTo(S, n - 1)
         IN  shorter \cup {Append(s, x) : s \in {q \in shorter : Len(q) = n - 1}, x \in S}

JidArgs == {JStr("5210000000000"), Undefined}
IsGroupArgs == {Undefined, JBool(FALSE), JBool(TRUE)}

MessageKeyArgs ==
    { JObj([remoteJid |-> JStr("5210000000000"), fromMe |-> JBool(FALSE),
            id |-> JStr("ABC123")]),
      JObj([remoteJid |-> JStr("120363@g.us"), fromMe |-> JBool(TRUE),
            id |-> JStr("DEF456"), participant |-> JStr("5219999999999")]),
      JObj([remoteJid |-> JStr("5210000000000"), fromMe |-> JBool(FALSE)]) }

ReactionTextArgs == {JText(g) : g \in SeqsUpTo(Graphemes, MaxReactionLen)}

ArgsOf(o) ==
    CASE o = "sendMessage" ->
            [jid : JidArgs, messageText : {JStr("hi"), JStr("")}, isGroup : IsGroupArgs]
      [] o = "sendLocation" ->
            [jid : JidArgs, latitude : {JNum(19), JStr("north")},
             longitude : {JNum(-99)}, isGroup : IsGroupArgs]
      [] o = "sendImage" ->
            [jid : JidArgs,
             imageUrl : {JStr("https://example.com/cat.png"), JStr("cat.png")},
             caption : {Undefined, JStr("a cat")}, isGroup : IsGroupArgs]
      [] o = "sendReaction" ->
            [messageKey : MessageKeyArgs, reactionText : ReactionTextArgs,
             isGroup : IsGroupArgs]

-----------------------------------------------------------------------------
(* Payload builders: the part of each execute function before sendApiRequest *)

\* input.isGroup ? "group" : "number"
TypeOf(input) == IF Truthy(input.isGroup) THEN JStr("group") ELSE JStr("number")

sendMessagePayload(input) ==
    JObj([jid |-> input.jid, type |-> TypeOf(input),
          message |-> JObj([text |-> input.messageText])])

sendLocationPayload(input) ==
    JObj([jid |-> input.jid, type |-> TypeOf(input),
          message |-> JObj([location |->
              JObj([degreesLatitude |-> input.latitude,
                    degreesLongitude |-> input.longitude])])])

sendImagePayload(input) ==
    JObj([jid |-> input.jid, type |-> TypeOf(input),
          message |-> JObj([image |-> JObj([url |-> input.imageUrl]),
                            caption |-> input.caption])])

\* a slip: the type does not follow isGroup
sendReactionPayloadAlwaysNumber(input) ==
    JObj([jid |-> GetProp(input.messageKey, "remoteJid"), type |-> JStr("number"),
          message |-> JObj([react |->
              JObj([key |-> input.messageKey, text |-> input.reactionText])])])

sendReactionPayload(input) ==
    JObj([jid |-> GetProp(input.messageKey, "remoteJid"), type |-> TypeOf(input),
          message |-> JObj([react |->
              JObj([key |-> input.messageKey, text |-> input.reactionText])])])

Payload(o, input) ==
    CASE o = "sendMessage" -> sendMessagePayload(input)
      [] o = "sendLocation" -> sendLocationPayload(input)
      [] o = "sendImage" -> sendImagePayload(input)
      [] o = "sendReaction" -> sendReactionPayload(input)

\* the errorMessagePrefix each execute function passes to sendApiRequest
ErrorMessagePrefix(o) ==
    CASE o = "sendMessage" -> "Error al enviar mensaje"
      [] o = "sendLocation" -> "Error al enviar ubicacion"
      [] o = "sendImage" -> "Error al enviar imagen"
      [] o = "sendReaction" -> "Error al enviar reaccion"

RECURSIVE Stringify(_)
\* JSON.stringify: members whose value is undefined are left out
Stringify(x) ==
    CASE x.t = "object" ->
            JObj([k \in {n \in DOMAIN x.f : x.f[n].t # "undefined"} |-> Stringify(x.f[k])])
      [] x.t = "array" -> JArr([i \in 1..Len(x.items) |-> Stringify(x.items[i])])
      [] OTHER -> x

\* the request sendApiRequest hands to fetch
Request(cfg, payload) ==
    [url |-> WACHAT_API_BASE \o "/messages/send/",
     method |-> "POST",
     contentType |-> "application/json",
     authorization |-> "Bearer " \o cfg.apiToken.v,
     body |-> Stringify(payload)]

-----------------------------------------------------------------------------
(* What the upstream may answer *)

\* (status, statusText) of a response; HTTP/2 responses carry no statusText
StatusLines ==
    { <<200, "OK">>, <<201, "">>, <<299, "">>, <<300, "Multiple Choices">>,
      <<401, "Unauthorized">>, <<500, "">> }

\* response.ok of node-fetch
ResponseOk(status) == status >= 200 /\ status < 300

UpstreamKeys ==
    { Undefined, JNull,
      JObj([id |-> JStr("ABC123"), fromMe |-> JBool(TRUE),
            remoteJid |-> JStr("5210000000000")]),
      JObj([id |-> JStr("DEF456"), fromMe |-> JBool(FALSE),
            remoteJid |-> JStr("120363@g.us"), participant |-> JStr("5219999999999")]),
      JObj([fromMe |-> JBool(TRUE)]) }

UpstreamStatuses == {Undefined, JStr("PENDING"), JStr("ERROR")}

\* content[0].text
UpstreamTexts ==
    {Undefined} \cup {JObj([status |-> st, key |-> k]) : st \in UpstreamStatuses,
                                                         k \in UpstreamKeys}

UpstreamContents ==
    {Undefined, JArr(<<>>)} \cup {JArr(<<JObj([text |-> tx])>>) : tx \in UpstreamTexts}

\* message of an error body: absent, empty, a string, or a list of messages
UpstreamMessages ==
    {Undefined, JStr(""), JStr("Session not found"), JArr(<<JStr("jid must be a string")>>)}

UpstreamIds == {Undefined, JStr("X")}

\* the values response.json() may resolve to: JSON carries no undefined members
Bodies ==
    {JNull, JNum(7), JStr("Bad Gateway"), JArr(<<>>)} \cup
    {Stringify(JObj([message |-> m, id |-> i, content |-> c])) :
        m \in UpstreamMessages, i \in UpstreamIds, c \in UpstreamContents}

\* errors fetch may reject with
FetchErrors ==
    { [name |-> "FetchError",
       message |-> JStr("request to " \o WACHAT_API_BASE \o "/messages/send/ failed, reason: ECONNREFUSED")],
      [name |-> "AbortError", message |-> JStr("")] }

\* the error response.json() rejects with on a body that is not JSON
JsonError ==
    [name |-> "FetchError",
     message |-> JStr("invalid json response body at " \o WACHAT_API_BASE \o "/messages/send/")]

\* reading a property of null
TypeError(prop) ==
    [name |-> "TypeError",
     message |-> JStr("Cannot read properties of null (reading '" \o prop \o "')")]

-----------------------------------------------------------------------------
(* sendApiRequest *)

Return(v) == [kind |-> "return", value |-> v]
Throw(e) == [kind |-> "throw", error |-> e]

ErrorResult(detail) ==
    [isError |-> JBool(TRUE),
     content |-> <<[type |-> "text", text |-> detail]>>,
     structuredContent |-> JObj([success |-> JBool(FALSE), error |-> detail])]

ConfigErrorMessage ==
    "Error de configuracion del servidor: WACHAT_API_TOKEN o WACHAT_SESSION_ID no estan definidos."

\* the early return of sendApiRequest when the configuration is missing
ConfigErrorResult == ErrorResult(JStr(ConfigErrorMessage))

\* a slip: the participant of the upstream key is not copied
MessageKeyOfWithoutParticipant(messageData) ==
    LET key == OptProp(messageData, "key")
    IN  IF Truthy(key)
        THEN JObj([remoteJid |-> GetProp(key, "remoteJid"),
                   fromMe |-> GetProp(key, "fromMe"),
                   id |-> GetProp(key, "id"),
                   participant |-> Undefined])
        ELSE Undefined

\* messageData?.key ? {remoteJid, fromMe, id, participant} : undefined
MessageKeyOf(messageData) ==
    LET key == OptProp(messageData, "key")
    IN  IF Truthy(key)
        THEN JObj([remoteJid |-> GetProp(key, "remoteJid"),
                   fromMe |-> GetProp(key, "fromMe"),
                   id |-> GetProp(key, "id"),
                   participant |-> GetProp(key, "participant")])
        ELSE Undefined

\* the response.ok branch
OkBranch(responseData) ==
    LET messageData == OptProp(OptFirst(GetProp(responseData, "content")), "text")
    IN  [isError |-> Undefined,
         content |-> <<>>,
         structuredContent |->
             JObj([success |-> JBool(OptProp(messageData, "status") = JStr("PENDING")),
                   messageKey |-> MessageKeyOf(messageData)])]

\* the else branch: responseData.message || `${errorMessagePrefix}: ${status} ${statusText}`
ErrorBranch(prefix, status, statusText, responseData) ==
    ErrorResult(Or(GetProp(responseData, "message"),
                   JStr(prefix \o ": " \o ToString(status) \o " " \o statusText)))

\* the statements of the try block after `await response.json()`
HandleResponse(prefix, status, statusText, responseData) ==
    IF ResponseOk(status)
    THEN IF Nullish(responseData) THEN Throw(TypeError("content"))
         ELSE Return(OkBranch(responseData))
    ELSE IF Nullish(responseData) THEN Throw(TypeError("message"))
         ELSE Return(ErrorBranch(prefix, status, statusText, responseData))

\* catch (error): error.message || "Error desconocido al contactar la API."
CatchBlock(error) ==
    Return(ErrorResult(Or(error.message, JStr("Error desconocido al contactar la API."))))

\* a slip: the statements run outside the try block, nothing is caught
TryCatchNothing(outcome) == outcome

\* try { ... } catch (error) { ... } around an outcome of the try block
TryCatch(outcome) ==
    IF outcome.kind = "throw" THEN CatchBlock(outcome.error) ELSE outcome

-----------------------------------------------------------------------------
(* The two earlier versions of sendMessage and sendLocation: the execute
   functions with everything inline, and the first shared helper, which returns
   messageId and fromMe instead of messageKey *)

Await == [kind |-> "await"]

\* what an execute function did when it reached its first await or returned
Started(sent, outcome, ran) == [sent |-> sent, outcome |-> outcome, ran |-> ran]

(* the inline version *)

\* !WACHAT_API_TOKEN || !sessionId
LegacyConfigMissing(cfg) == ~Truthy(cfg.apiToken) \/ ~Truthy(cfg.sessionId)

LegacyErrorResult(detail) ==
    [isError |-> JBool(TRUE),
     content |-> <<[type |-> "text", text |-> detail]>>,
     structuredContent |-> JObj([success |-> JBool(FALSE), error |-> detail])]

LegacyPayload(o, input) ==
    CASE o = "sendMessage" ->
            JObj([jid |-> input.jid,
                  type |-> (IF Truthy(input.isGroup) THEN JStr("group") ELSE JStr("number")),
                  message |-> JObj([text |-> input.messageText])])
      [] o = "sendLocation" ->
            JObj([jid |-> input.jid,
                  type |-> (IF Truthy(input.isGroup) THEN JStr("group") ELSE JStr("number")),
                  message |-> JObj([location |->
                      JObj([degreesLatitude |-> input.latitude,
                            degreesLongitude |-> input.longitude])])])

LegacyRequest(cfg, payload) ==
    [url |-> WACHAT_API_BASE \o "/messages/send/",
     method |-> "POST",
     contentType |-> "application/json",
     authorization |-> "Bearer " \o cfg.apiToken.v,
     body |-> Stringify(payload)]

\* the execute function up to `await fetch(...)`: the configuration is checked first
LegacyStart(cfg, o, input) ==
    IF LegacyConfigMissing(cfg)
    THEN Started(<<>>, Return(LegacyErrorResult(JStr(ConfigErrorMessage))),
                 <<"configCheck">>)
    ELSE Started(<<LegacyRequest(cfg, LegacyPayload(o, input))>>, Await,
                 <<"configCheck", "payload", "fetch">>)

\* {success, messageId: messageData?.key?.id || "Unknown",
\*  fromMe: messageData?.key?.fromMe || false}
LegacyOkBranch(responseData) ==
    LET messageData == OptProp(OptFirst(GetProp(responseData, "content")), "text")
    IN  [isError |-> Undefined,
         content |-> <<>>,
         structuredContent |->
             JObj([success |-> JBool(OptProp(messageData, "status") = JStr("PENDING")),
                   messageId |-> Or(OptProp(OptProp(messageData, "key"), "id"),
                                    JStr("Unknown")),
                   fromMe |-> Or(OptProp(OptProp(messageData, "key"), "fromMe"),
                                 JBool(FALSE))])]

\* `Error al enviar mensaje: ${status} ${statusText}`, and the same for ubicacion
LegacyErrorText(o, status, statusText) ==
    CASE o = "sendMessage" ->
            "Error al enviar mensaje: " \o ToString(status) \o " " \o statusText
      [] o = "sendLocation" ->
            "Error al enviar ubicacion: " \o ToString(status) \o " " \o statusText

LegacyHandleResponse(o, status, statusText, responseData) ==
    IF status >= 200 /\ status < 300
    THEN IF Nullish(responseData) THEN Throw(TypeError("content"))
         ELSE Return(LegacyOkBranch(responseData))
    ELSE IF Nullish(responseData) THEN Throw(TypeError("message"))
         ELSE Return(LegacyErrorResult(Or(GetProp(responseData, "message"),
                                          JStr(LegacyErrorText(o, status, statusText)))))

LegacyTryCatch(outcome) ==
    IF outcome.kind = "throw"
    THEN Return(LegacyErrorResult(Or(outcome.error.message,
                                     JStr("Error desconocido al contactar la API."))))
    ELSE outcome

(* the first shared helper *)

HelperConfigMissing(cfg) == ~Truthy(cfg.apiToken) \/ ~Truthy(cfg.sessionId)

HelperErrorResult(detail) ==
    [isError |-> JBool(TRUE),
     content |-> <<[type |-> "text", text |-> detail]>>,
     structuredContent |-> JObj([success |-> JBool(FALSE), error |-> detail])]

HelperPayload(o, input) ==
    CASE o = "sendMessage" ->
            JObj([jid |-> input.jid,
                  type |-> (IF Truthy(input.isGroup) THEN JStr("group") ELSE JStr("number")),
                  message |-> JObj([text |-> input.messageText])])
      [] o = "sendLocation" ->
            JObj([jid |-> input.jid,
                  type |-> (IF Truthy(input.isGroup) THEN JStr("group") ELSE JStr("number")),
                  message |-> JObj([location |->
                      JObj([degreesLatitude |-> input.latitude,
                            degreesLongitude |-> input.longitude])])])

HelperPrefix(o) ==
    CASE o = "sendMessage" -> "Error al enviar mensaje"
      [] o = "sendLocation" -> "Error al enviar ubicacion"

HelperRequest(cfg, payload) ==
    [url |-> WACHAT_API_BASE \o "/messages/send/",
     method |-> "POST",
     contentType |-> "application/json",
     authorization |-> "Bearer " \o cfg.apiToken.v,
     body |-> Stringify(payload)]

\* the execute function builds the payload, then sendApiRequest checks the
\* configuration and calls fetch
HelperStart(cfg, o, input) ==
    LET payload == HelperPayload(o, input)
    IN  IF HelperConfigMissing(cfg)
        THEN Started(<<>>, Return(HelperErrorResult(JStr(ConfigErrorMessage))),
                     <<"payload", "configCheck">>)
        ELSE Started(<<HelperRequest(cfg, payload)>>, Await,
                     <<"payload", "configCheck", "fetch">>)

\* a slip: the "Unknown" of a missing key id is lost in the move to the helper
HelperOkBranchNoFallback(responseData) ==
    LET messageData == OptProp(OptFirst(GetProp(responseData, "content")), "text")
    IN  [isError |-> Undefined,
         content |-> <<>>,
         structuredContent |->
             JObj([success |-> JBool(OptProp(messageData, "status") = JStr("PENDING")),
                   messageId |-> OptProp(OptProp(messageData, "key"), "id"),
                   fromMe |-> Or(OptProp(OptProp(messageData, "key"), "fromMe"),
                                 JBool(FALSE))])]

HelperOkBranch(responseData) ==
    LET messageData == OptProp(OptFirst(GetProp(responseData, "content")), "text")
    IN  [isError |-> Undefined,
         content |-> <<>>,
         structuredContent |->
             JObj([success |-> JBool(OptProp(messageData, "status") = JStr("PENDING")),
                   messageId |-> Or(OptProp(OptProp(messageData, "key"), "id"),
                                    JStr("Unknown")),
                   fromMe |-> Or(OptProp(OptProp(messageData, "key"), "fromMe"),
                                 JBool(FALSE))])]

HelperHandleResponse(prefix, status, statusText, responseData) ==
    IF status >= 200 /\ status < 300
    THEN IF Nullish(responseData) THEN Throw(TypeError("content"))
         ELSE Return(HelperOkBranch(responseData))
    ELSE IF Nullish(responseData) THEN Throw(TypeError("message"))
         ELSE Return(HelperErrorResult(Or(GetProp(responseData, "message"),
                 JStr(prefix \o ": " \o ToString(status) \o " " \o statusText))))

HelperTryCatch(outcome) ==
    IF outcome.kind = "throw"
    THEN Return(HelperErrorResult(Or(outcome.error.message,
                                     JStr("Error desconocido al contactar la API."))))
    ELSE outcome

(* the version in use *)

\* the execute function builds the payload, then sendApiRequest checks the
\* configuration and calls fetch
CurrentStart(cfg, o, input) ==
    LET payload == Payload(o, input)
    IN  IF ConfigMissing(cfg)
        THEN Started(<<>>, Return(ConfigErrorResult), <<"payload", "configCheck">>)
        ELSE Started(<<Request(cfg, payload)>>, Await,
                     <<"payload", "configCheck", "fetch">>)

-----------------------------------------------------------------------------
(* Invocations *)

\* the calls the host makes
Calls == {"call"}

NoArgs == [t |-> "none"]
NoResponse == [kind |-> "none", status |-> 0, statusText |-> "", body |-> Undefined,
               error |-> Undefined]
NoResult == [isError |-> Undefined, content |-> <<>>, structuredContent |-> Undefined]

\* two calls the host makes without waiting for the first to return
ConcCalls == {"first", "second"}

\* the same call given to the inline version and to the first shared helper
EquivCalls == {"legacy", "refactored"}

\* the version of the code that serves call c
Version(c) ==
    CASE c = "legacy" -> "inline"
      [] c = "refactored" -> "helper"
      [] OTHER -> "current"

StartOf(c, o, input) ==
    CASE Version(c) = "inline" -> LegacyStart(config, o, input)
      [] Version(c) = "helper" -> HelperStart(config, o, input)
      [] OTHER -> CurrentStart(config, o, input)

HandleResponseOf(c, o, status, statusText, b) ==
    CASE Version(c) = "inline" -> LegacyHandleResponse(o, status, statusText, b)
      [] Version(c) = "helper" -> HelperHandleResponse(HelperPrefix(o), status, statusText, b)
      [] OTHER -> HandleResponse(ErrorMessagePrefix(o), status, statusText, b)

TryCatchOf(c, outcome) ==
    CASE Version(c) = "inline" -> LegacyTryCatch(outcome)
      [] Version(c) = "helper" -> HelperTryCatch(outcome)
      [] OTHER -> TryCatch(outcome)

\* nothing has been called yet; the configuration was read at module load
InitOf(callSet) ==
    /\ config \in Configs
    /\ pc = [c \in callSet |-> "idle"]
    /\ op = [c \in callSet |-> "none"]
    /\ args = [c \in callSet |-> NoArgs]
    /\ requests = [c \in callSet |-> <<>>]
    /\ response = [c \in callSet |-> NoResponse]
    /\ result = [c \in callSet |-> NoResult]
    /\ returned = [c \in callSet |-> 0]
    /\ stages = [c \in callSet |-> <<>>]
    /\ events = <<>>

Init == InitOf(Calls)

InitConc == InitOf(ConcCalls)

InitEquiv == InitOf(EquivCalls)

(* With several calls in one behaviour the host's arguments and the upstream's
   answers are drawn from smaller sets, one per branch of the code. *)

SingleCall == DOMAIN pc = Calls

SmallOps == {"sendMessage", "sendReaction"}

SmallArgsOf(o) ==
    CASE o = "sendMessage" ->
            [jid : JidArgs, messageText : {JStr("hi")}, isGroup : {Undefined}]
      [] o = "sendReaction" ->
            [messageKey : {JObj([remoteJid |-> JStr("120363@g.us"), fromMe |-> JBool(TRUE),
                                 id |-> JStr("DEF456"),
                                 participant |-> JStr("5219999999999")])},
             reactionText : {JText(<<"heart">>)}, isGroup : {JBool(TRUE)}]

SmallStatusLines == {<<200, "OK">>, <<500, "">>}

SmallBodies ==
    { JObj([content |-> JArr(<<JObj([text |->
          JObj([status |-> JStr("PENDING"),
                key |-> JObj([id |-> JStr("ABC123"), fromMe |-> JBool(TRUE),
                              remoteJid |-> JStr("5210000000000")])])])>>)]),
      JObj([message |-> JStr("Session not found")]),
      JObj([id |-> JStr("X")]) }

(* The two earlier versions are given sendMessage and sendLocation calls and
   answers of every kind the code tells apart. *)

EquivRun == DOMAIN pc = EquivCalls

EquivOps == {"sendMessage", "sendLocation"}

EquivArgsOf(o) ==
    CASE o = "sendMessage" ->
            [jid : JidArgs, messageText : {JStr("hi")}, isGroup : {Undefined, JBool(TRUE)}]
      [] o = "sendLocation" ->
            [jid : {JStr("5210000000000")}, latitude : {JNum(19), JStr("north")},
             longitude : {JNum(-99)}, isGroup : {JBool(FALSE)}]

EquivStatusLines ==
    {<<200, "OK">>, <<299, "">>, <<300, "Multiple Choices">>, <<500, "">>}

EquivTexts ==
    { Undefined,
      JObj([status |-> JStr("PENDING"),
            key |-> JObj([id |-> JStr("ABC123"), fromMe |-> JBool(TRUE),
                          remoteJid |-> JStr("5210000000000")])]),
      JObj([status |-> JStr("ERROR"),
            key |-> JObj([id |-> JStr("DEF456"), fromMe |-> JBool(FALSE),
                          remoteJid |-> JStr("120363@g.us")])]),
      JObj([status |-> JStr("PENDING"), key |-> JObj([fromMe |-> JBool(TRUE)])]),
      JObj([status |-> JStr("PENDING"), key |-> JNull]),
      JObj([status |-> JStr("PENDING")]),
      JObj([key |-> JObj([id |-> JStr(""), fromMe |-> JBool(TRUE)])]) }

EquivBodies ==
    {JNull, JStr("Bad Gateway"), JArr(<<>>)} \cup
    {Stringify(JObj([message |-> m])) : m \in UpstreamMessages} \cup
    {JObj([id |-> JStr("X")]), JObj([content |-> JArr(<<>>)])} \cup
    {Stringify(JObj([content |-> JArr(<<JObj([text |-> tx])>>)])) : tx \in EquivTexts}

OpsIn == IF SingleCall THEN Ops ELSE IF EquivRun THEN EquivOps ELSE SmallOps
ArgsIn(o) ==
    IF SingleCall THEN ArgsOf(o) ELSE IF EquivRun THEN EquivArgsOf(o) ELSE SmallArgsOf(o)
StatusLinesIn ==
    IF SingleCall THEN StatusLines ELSE IF EquivRun THEN EquivStatusLines
    ELSE SmallStatusLines
BodiesIn == IF SingleCall THEN Bodies ELSE IF EquivRun THEN EquivBodies ELSE SmallBodies

\* the promise of the execute function settles with `outcome`
Settle(c, outcome, ran) ==
    /\ stages' = [stages EXCEPT ![c] = @ \o ran]
    /\ events' = (IF pc[c] = "idle" THEN Append(events, <<"invoke", c>>) ELSE events)
                    \o <<<<outcome.kind, c>>>>
    /\ IF outcome.kind = "return"
       THEN /\ pc' = [pc EXCEPT ![c] = "done"]
            /\ result' = [result EXCEPT ![c] = outcome.value]
            /\ returned' = [returned EXCEPT ![c] = @ + 1]
       ELSE /\ pc' = [pc EXCEPT ![c] = "faulted"]
            /\ UNCHANGED <<result, returned>>

\* The host receives a tools/call: it checks the arguments against the registered
\* inputSchema and only then runs the execute function, which builds the payload
\* and enters sendApiRequest up to `await fetch(...)`.
Invoke(c) ==
    /\ pc[c] = "idle"
    /\ \E o \in OpsIn : \E a \in ArgsIn(o) :
        /\ op' = [op EXCEPT ![c] = o]
        /\ args' = [args EXCEPT ![c] = a]
        /\ IF ~InputValid(o, a)
           THEN /\ pc' = [pc EXCEPT ![c] = "rejected"]
                /\ stages' = [stages EXCEPT ![c] = <<"validate">>]
                /\ events' = Append(events, <<"invoke", c>>)
                /\ UNCHANGED <<requests, result, returned>>
           ELSE LET st == StartOf(c, o, ParsedInput(a))
                IN  /\ requests' = [requests EXCEPT ![c] = @ \o st.sent]
                    /\ IF st.outcome.kind = "await"
                       THEN /\ pc' = [pc EXCEPT ![c] = "awaitFetch"]
                            /\ stages' = [stages EXCEPT ![c] = <<"validate">> \o st.ran]
                            /\ events' = Append(events, <<"invoke", c>>)
                            /\ UNCHANGED <<result, returned>>
                       ELSE Settle(c, st.outcome, <<"validate">> \o st.ran)
    /\ UNCHANGED <<config, response>>

\* a slip: a failed fetch is sent again instead of being reported
FetchRejectRetry(c) ==
    /\ pc[c] = "awaitFetch"
    /\ Len(requests[c]) < 3
    /\ requests' = [requests EXCEPT ![c] = Append(@, requests[c][1])]
    /\ stages' = [stages EXCEPT ![c] = @ \o <<"catch", "fetch">>]
    /\ UNCHANGED <<config, pc, op, args, response, result, returned, events>>

\* fetch rejects (DNS, connection refused, abort): control enters the catch block
FetchReject(c) ==
    /\ pc[c] = "awaitFetch"
    /\ \E e \in FetchErrors :
        /\ response' = [response EXCEPT ![c] = [NoResponse EXCEPT !.kind = "fetchError",
                                                                 !.error = e.message]]
        /\ Settle(c, TryCatchOf(c, Throw(e)), <<"catch">>)
    /\ UNCHANGED <<config, op, args, requests>>

\* fetch resolves with the response head; the function awaits response.json()
FetchResolve(c) ==
    /\ pc[c] = "awaitFetch"
    /\ \E sl \in StatusLinesIn :
        response' = [response EXCEPT ![c] = [NoResponse EXCEPT !.kind = "head",
                                                                 !.status = sl[1],
                                                                 !.statusText = sl[2]]]
    /\ pc' = [pc EXCEPT ![c] = "awaitJson"]
    /\ stages' = [stages EXCEPT ![c] = Append(@, "json")]
    /\ UNCHANGED <<config, op, args, requests, result, returned, events>>

\* response.json() rejects: the body is not JSON
JsonReject(c) ==
    /\ pc[c] = "awaitJson"
    /\ response' = [response EXCEPT ![c].kind = "badJson", ![c].error = JsonError.message]
    /\ Settle(c, TryCatchOf(c, Throw(JsonError)), <<"catch">>)
    /\ UNCHANGED <<config, op, args, requests>>

\* the call invoked last
LastInvoked ==
    LET invokes == {i \in 1..Len(events) : events[i][1] = "invoke"}
    IN  events[CHOOSE i \in invokes : \A j \in invokes : j <= i][2]

\* a slip: errorMessagePrefix kept in a module-level variable that every
\* invocation overwrites, and read back after the await
JsonResolveSharedPrefix(c) ==
    /\ pc[c] = "awaitJson"
    /\ \E b \in BodiesIn :
        /\ response' = [response EXCEPT ![c].kind = "body", ![c].body = b]
        /\ LET outcome == HandleResponse(ErrorMessagePrefix(op[LastInvoked]),
                                         response[c].status, response[c].statusText, b)
           IN  Settle(c, TryCatch(outcome),
                      IF outcome.kind = "throw" THEN <<"normalize", "catch">>
                      ELSE <<"normalize">>)
    /\ UNCHANGED <<config, op, args, requests>>

\* response.json() resolves: the rest of the try block runs
JsonResolve(c) ==
    /\ pc[c] = "awaitJson"
    /\ \E b \in BodiesIn :
        /\ response' = [response EXCEPT ![c].kind = "body", ![c].body = b]
        /\ LET outcome == HandleResponseOf(c, op[c], response[c].status,
                                           response[c].statusText, b)
           IN  Settle(c, TryCatchOf(c, outcome),
                      IF outcome.kind = "throw" THEN <<"normalize", "catch">>
                      ELSE <<"normalize">>)
    /\ UNCHANGED <<config, op, args, requests>>

Next ==
    \/ \E c \in DOMAIN pc : Invoke(c)
    \/ \E c \in DOMAIN pc : FetchReject(c)
    \/ \E c \in DOMAIN pc : FetchResolve(c)
    \/ \E c \in DOMAIN pc : JsonReject(c)
    \/ \E c \in DOMAIN pc : JsonResolve(c)

Spec == Init /\ [][Next]_vars

\* two calls in flight at once
SpecConc == InitConc /\ [][Next]_vars

\* the inline version and the first shared helper, side by side
SpecEquiv == InitEquiv /\ [][Next]_vars

\* the upstream eventually answers or the connection fails, and a received
\* response is eventually read: the awaited promises settle
FairSpec ==
    /\ Spec
    /\ \A c \in Calls :
        /\ WF_vars(FetchReject(c) \/ FetchResolve(c))
        /\ WF_vars(JsonReject(c) \/ JsonResolve(c))

-----------------------------------------------------------------------------
(* Vocabulary of the properties *)

Done(c) == pc[c] = "done"
Structured(c) == result[c].structuredContent
SuccessOf(c) == GetProp(Structured(c), "success")
ErrorOf(c) == GetProp(Structured(c), "error")
MessageKeyField(c) == GetProp(Structured(c), "messageKey")
MessageIdField(c) == GetProp(Structured(c), "messageId")
Present(x) == x.t # "undefined"
NonEmptyString(x) == x.t = "string" /\ x # JStr("")
\* the response body arrived and was parsed
GotBody(c) == response[c].kind = "body"
Status2xx(c) == response[c].status \in 200..299
\* content[0].text of the body, when the body has the nested shape
NestedText(c) ==
    LET b == response[c].body
    IN  IF b.t = "object" /\ "content" \in DOMAIN b.f /\ b.f.content.t = "array"
           /\ Len(b.f.content.items) > 0 /\ b.f.content.items[1].t = "object"
           /\ "text" \in DOMAIN b.f.content.items[1].f
        THEN b.f.content.items[1].f.text
        ELSE Undefined
NestedStatus(c) == OptProp(NestedText(c), "status")
NestedKey(c) == OptProp(NestedText(c), "key")

-----------------------------------------------------------------------------
(* C1 *)

ConfigAbsent == config.apiToken = Undefined \/ config.sessionId = Undefined

\* C1: when apiToken or sessionId is absent, no call ever issues an HTTP request,
\* and every call that entered its execute function has returned success = false
\* with a non-empty error.
C1_MissingConfigFailsWithoutRequest ==
    ConfigAbsent =>
        \A c \in DOMAIN pc :
            /\ requests[c] = <<>>
            /\ pc[c] \in {"idle", "rejected", "done"}
            /\ Done(c) => SuccessOf(c) = JBool(FALSE) /\ NonEmptyString(ErrorOf(c))

C1_Witness ==
    \E c \in DOMAIN pc :
        /\ Done(c) /\ op[c] = "sendReaction"
        /\ config.apiToken = JStr("tok") /\ config.sessionId = Undefined
        /\ ErrorOf(c) = JStr(ConfigErrorMessage)

-----------------------------------------------------------------------------
(* C2 *)

\* C2: a call answered with an HTTP status outside [200,299] returns
\* success = false and an error that is a non-empty string, whatever the body.
C2_Non2xxFailsWithErrorString ==
    \A c \in DOMAIN pc :
        (Done(c) /\ response[c].kind \in {"body", "badJson"} /\ ~Status2xx(c)) =>
            SuccessOf(c) = JBool(FALSE) /\ NonEmptyString(ErrorOf(c))

-----------------------------------------------------------------------------
(* C3 *)

\* C3: a 2xx body of the nested shape with status "PENDING" and a key whose id is
\* populated yields success = true and a messageKey whose id, remoteJid, fromMe
\* and participant are those of the upstream key.
C3_NestedPendingReturnsUpstreamKey ==
    \A c \in DOMAIN pc :
        (Done(c) /\ GotBody(c) /\ Status2xx(c)
            /\ NestedStatus(c) = JStr("PENDING")
            /\ NestedKey(c).t = "object" /\ NonEmptyString(GetProp(NestedKey(c), "id"))) =>
        /\ SuccessOf(c) = JBool(TRUE)
        /\ MessageKeyField(c).t = "object"
        /\ \A fld \in {"id", "remoteJid", "fromMe", "participant"} :
               GetProp(MessageKeyField(c), fld) = GetProp(NestedKey(c), fld)

C3_Witness ==
    \E c \in DOMAIN pc :
        /\ Done(c) /\ GotBody(c) /\ response[c].status = 200
        /\ op[c] = "sendMessage"
        /\ NestedStatus(c) = JStr("PENDING")
        /\ GetProp(NestedKey(c), "id") = JStr("DEF456")
        /\ GetProp(MessageKeyField(c), "participant") = JStr("5219999999999")
        /\ SuccessOf(c) = JBool(TRUE)

-----------------------------------------------------------------------------
(* C4 *)

\* the body is the flat shape {id: X}: an id and no content array
FlatShape(c) ==
    LET b == response[c].body
    IN  b.t = "object" /\ "id" \in DOMAIN b.f /\ "content" \notin DOMAIN b.f

\* C4: a 2xx body of the flat shape {id: X} yields success = true.
C4_FlatShapeSucceeds ==
    \A c \in DOMAIN pc :
        (Done(c) /\ GotBody(c) /\ Status2xx(c) /\ FlatShape(c)) =>
            SuccessOf(c) = JBool(TRUE)

-----------------------------------------------------------------------------
(* C5 *)

DataPresent(c) == Present(MessageKeyField(c)) \/ Present(MessageIdField(c))

\* C5: every returned result has exactly one of data and error; success = true
\* implies no error; success = false implies no data and an error.
C5_EnvelopeInvariant ==
    \A c \in DOMAIN pc :
        Done(c) =>
            /\ DataPresent(c) # Present(ErrorOf(c))
            /\ SuccessOf(c) = JBool(TRUE) => ~Present(ErrorOf(c))
            /\ SuccessOf(c) = JBool(FALSE) => ~DataPresent(c) /\ Present(ErrorOf(c))

\* the case C5 names: a 2xx answer whose status is not "PENDING" but whose key is
\* populated comes back with success = false, a messageKey and no error
C5_NonPendingWithKey ==
    \E c \in DOMAIN pc :
        /\ Done(c) /\ GotBody(c) /\ Status2xx(c)
        /\ NestedStatus(c) = JStr("ERROR")
        /\ NonEmptyString(GetProp(NestedKey(c), "id"))
        /\ SuccessOf(c) = JBool(FALSE)
        /\ Present(MessageKeyField(c))
        /\ ~Present(ErrorOf(c))

-----------------------------------------------------------------------------
(* C6 *)

\* the body has the nested shape with both status and key, or the flat shape
RecognizedShape(c) ==
    \/ Present(NestedStatus(c)) /\ NestedKey(c).t = "object"
    \/ FlatShape(c)

\* C6: a 2xx body of no recognized shape, or lacking a required field, yields
\* success = false and a non-empty error.
C6_UnrecognizedBodyFailsWithError ==
    \A c \in DOMAIN pc :
        (Done(c) /\ GotBody(c) /\ Status2xx(c) /\ ~RecognizedShape(c)) =>
            SuccessOf(c) = JBool(FALSE) /\ NonEmptyString(ErrorOf(c))

-----------------------------------------------------------------------------
(* C7 *)

\* the result is a CallToolResult whose structuredContent is an object with a
\* boolean success
IsStructuredResult(c) ==
    /\ Structured(c).t = "object"
    /\ SuccessOf(c).t = "boolean"
    /\ returned[c] = 1

\* the failure kinds C7 lists: missing configuration, fetch rejecting, an
\* unparsable or null body, a non-2xx status
FailureKind(c) ==
    \/ ConfigAbsent
    \/ response[c].kind \in {"fetchError", "badJson"}
    \/ GotBody(c) /\ (response[c].body = JNull \/ ~Status2xx(c))

-----------------------------------------------------------------------------
(* C8 *)

\* the reactionText the host received is exactly one emoji
ExactlyOneEmoji(x) ==
    /\ x.t = "string" /\ "graphemes" \in DOMAIN x
    /\ Len(x.graphemes) = 1
    /\ x.graphemes[1] \in EmojiGraphemes

\* C8: a sendReaction whose reactionText is not exactly one emoji is rejected by
\* the input validation and issues no HTTP request.
C8_NonSingleEmojiRejected ==
    \A c \in DOMAIN pc :
        (op[c] = "sendReaction" /\ ~ExactlyOneEmoji(args[c].reactionText)) =>
            pc[c] = "rejected" /\ requests[c] = <<>>

\* the case C8 names: two emoji pass the validation and a request goes out
C8_TwoEmojiSent ==
    \E c \in DOMAIN pc :
        /\ op[c] = "sendReaction"
        /\ Len(args[c].reactionText.graphemes) = 2
        /\ Len(requests[c]) = 1

-----------------------------------------------------------------------------
(* C9 *)

Terminal(c) == pc[c] \in {"done", "rejected", "faulted"}

\* C9: a call issues at most one HTTP request and reports at most one result,
\* exactly one once it is done; the steps it went through never repeat; and once
\* it is terminal nothing about it changes: no further request, no second result.
C9_OneShot ==
    /\ [](\A c \in Calls :
            /\ Len(requests[c]) <= 1
            /\ returned[c] <= 1
            /\ Done(c) => returned[c] = 1
            /\ \A i, j \in 1..Len(stages[c]) : stages[c][i] = stages[c][j] => i = j)
    /\ [][\A c \in Calls :
            Terminal(c) =>
                /\ pc'[c] = pc[c]
                /\ requests'[c] = requests[c]
                /\ returned'[c] = returned[c]
                /\ result'[c] = result[c]]_vars

\* a call whose request failed at the transport has returned, with one request sent
C9_Witness ==
    \E c \in DOMAIN pc :
        /\ Done(c) /\ response[c].kind = "fetchError"
        /\ Len(requests[c]) = 1 /\ returned[c] = 1
        /\ SuccessOf(c) = JBool(FALSE)

-----------------------------------------------------------------------------
(* C10 *)

\* the fields sendReactionOutputSchema declares
ReactionOutputFields == {"success", "messageId", "error"}

\* C10: the result of sendReaction carries only the fields of its declared output
\* contract, and on success carries the upstream message id in messageId when the
\* upstream gave one.
C10_ReactionResultMatchesSchema ==
    \A c \in DOMAIN pc :
        (Done(c) /\ op[c] = "sendReaction") =>
            /\ {n \in DOMAIN Structured(c).f : Present(Structured(c).f[n])}
                   \subseteq ReactionOutputFields
            /\ (SuccessOf(c) = JBool(TRUE) /\ GotBody(c)
                    /\ NonEmptyString(GetProp(NestedKey(c), "id"))) =>
                   MessageIdField(c) = GetProp(NestedKey(c), "id")

\* a successful reaction comes back with a messageKey and no messageId
C10_ReactionReturnsMessageKey ==
    \E c \in DOMAIN pc :
        /\ Done(c) /\ op[c] = "sendReaction"
        /\ SuccessOf(c) = JBool(TRUE)
        /\ Present(MessageKeyField(c))
        /\ ~Present(MessageIdField(c))

-----------------------------------------------------------------------------
(* C11 *)

\* the places of step `x` among the steps call c went through
Places(c, x) == {i \in 1..Len(stages[c]) : stages[c][i] = x}
Precedes(c, x, y) == \A i \in Places(c, x) : \A j \in Places(c, y) : i < j

\* C11: the steps of a call come in the order validate, configuration check,
\* payload, fetch, normalize; the configuration check runs exactly once in every
\* call that reaches its execute function, before the payload is built and before
\* any request.
C11_ConfigCheckFirst ==
    \A c \in DOMAIN pc :
        /\ Precedes(c, "validate", "configCheck")
        /\ Precedes(c, "configCheck", "payload")
        /\ Precedes(c, "payload", "fetch")
        /\ Precedes(c, "fetch", "normalize")
        /\ pc[c] \notin {"idle", "rejected"} => Cardinality(Places(c, "configCheck")) = 1
        /\ requests[c] # <<>> => Places(c, "configCheck") # {}

\* the configuration is missing and the payload was built all the same, before
\* the check
C11_PayloadBuiltBeforeCheck ==
    \E c \in DOMAIN pc :
        /\ Done(c) /\ ConfigAbsent
        /\ stages[c] = <<"validate", "payload", "configCheck">>
        /\ requests[c] = <<>>

-----------------------------------------------------------------------------
(* C12 *)

\* the request body of call c
BodyOf(c) == requests[c][1].body
ReactOf(c) == GetProp(GetProp(BodyOf(c), "message"), "react")

\* C12: the payload of a valid sendReaction has jid = messageKey.remoteJid,
\* message.react.key = the messageKey as given, message.react.text = reactionText
\* and type "group" exactly when isGroup is true; it is a function of the input
\* alone, and building it sends nothing: a call that built its payload and did
\* not reach fetch has issued no request.
C12_ReactionPayload ==
    \A c \in DOMAIN pc :
        /\ (op[c] = "sendReaction" /\ requests[c] # <<>>) =>
            /\ Len(requests[c]) = 1
            /\ GetProp(BodyOf(c), "jid") = GetProp(args[c].messageKey, "remoteJid")
            /\ GetProp(ReactOf(c), "key") = args[c].messageKey
            /\ GetProp(ReactOf(c), "text") = args[c].reactionText
            /\ GetProp(BodyOf(c), "type") =
                   (IF args[c].isGroup = JBool(TRUE) THEN JStr("group") ELSE JStr("number"))
            /\ DOMAIN BodyOf(c).f = {"jid", "type", "message"}
            /\ DOMAIN GetProp(BodyOf(c), "message").f = {"react"}
            /\ DOMAIN ReactOf(c).f = {"key", "text"}
        /\ (Places(c, "payload") # {} /\ Places(c, "fetch") = {}) => requests[c] = <<>>

\* a reaction to a group message, with the participant in the key, was sent
C12_Witness ==
    \E c \in DOMAIN pc :
        /\ op[c] = "sendReaction" /\ Len(requests[c]) = 1
        /\ args[c].isGroup = JBool(TRUE)
        /\ GetProp(BodyOf(c), "type") = JStr("group")
        /\ GetProp(BodyOf(c), "jid") = JStr("120363@g.us")
        /\ GetProp(GetProp(ReactOf(c), "key"), "participant") = JStr("5219999999999")
        /\ GetProp(ReactOf(c), "text") = JText(<<"heart">>)

-----------------------------------------------------------------------------
(* C13 *)

\* what call c must return, from the configuration, its own tool and its own
\* upstream answer
OwnResult(c) ==
    IF ConfigMissing(config) THEN ConfigErrorResult
    ELSE CASE response[c].kind \in {"fetchError", "badJson"} ->
                  CatchBlock([message |-> response[c].error]).value
           [] response[c].kind = "body" ->
                  TryCatch(HandleResponse(ErrorMessagePrefix(op[c]), response[c].status,
                                          response[c].statusText, response[c].body)).value
           [] OTHER -> NoResult

\* everything the model keeps about call c
CallState(c) ==
    <<pc[c], op[c], args[c], requests[c], response[c], result[c], returned[c], stages[c]>>

FinalAnswers == {"fetchError", "badJson", "body"}

\* in this step the upstream's answer to call c arrives in full, or its failure
AnswerArrives(c) ==
    response[c].kind \notin FinalAnswers /\ response'[c].kind \in FinalAnswers

\* C13: with two calls in flight, under every interleaving: the configuration is
\* never modified; the result of a call is the one its own tool, the
\* configuration and its own upstream answer give; a step of one call changes
\* nothing of the other, and a returned result never changes; a call that waits
\* for the upstream returns in the very step its own answer arrives, so calls
\* return in the order of their answers, whatever the order they were invoked in.
C13_ConcurrentCallsIndependent ==
    /\ [][config' = config]_vars
    /\ [](\A c \in ConcCalls : Done(c) => result[c] = OwnResult(c))
    /\ [][\A c \in ConcCalls :
            /\ Done(c) => (pc'[c] = pc[c] /\ result'[c] = result[c])
            /\ (CallState(c)' # CallState(c)) =>
                   \A d \in ConcCalls \ {c} : CallState(d)' = CallState(d)
            /\ AnswerArrives(c) =>
                   (pc'[c] = "done" /\ events' = Append(events, <<"return", c>>))
            /\ (pc[c] \in {"awaitFetch", "awaitJson"} /\ pc'[c] = "done") =>
                   AnswerArrives(c)]_vars

\* "first" was invoked before "second" and returned after it, each with the
\* result of its own answer
C13_Witness ==
    /\ DOMAIN pc = ConcCalls
    /\ events = << <<"invoke", "first">>, <<"invoke", "second">>,
                   <<"return", "second">>, <<"return", "first">> >>
    /\ op["first"] = "sendMessage" /\ op["second"] = "sendReaction"
    /\ response["first"].status = 500 /\ response["first"].body = JObj([id |-> JStr("X")])
    /\ response["second"].status = 200
    /\ ErrorOf("first") = JStr("Error al enviar mensaje: 500 ")
    /\ SuccessOf("second") = JBool(TRUE)
    /\ GetProp(MessageKeyField("second"), "id") = JStr("ABC123")

-----------------------------------------------------------------------------
(* C14: the inline version of executeSendMessage and executeSendLocation and
   the version that delegates to the first shared helper cannot be told apart.
   Given the same tool and the same arguments under the one configuration, both
   accept or both reject the input and both issue the same request or none;
   given also the same answer from upstream (fetch failure, unreadable body, or
   a status line and body), neither is still waiting while the other has
   returned, and both return the same isError flag, content and
   structuredContent. *)

SameCall == pc["legacy"] # "idle" /\ pc["refactored"] # "idle"
            /\ op["legacy"] = op["refactored"] /\ args["legacy"] = args["refactored"]

SameAnswer == response["legacy"] = response["refactored"]

C14_LegacyAndHelperEquivalent ==
    DOMAIN pc = EquivCalls =>
        /\ SameCall =>
              /\ requests["legacy"] = requests["refactored"]
              /\ pc["legacy"] = "rejected" <=> pc["refactored"] = "rejected"
        /\ (SameCall /\ SameAnswer) =>
              /\ pc["legacy"] = pc["refactored"]
              /\ result["legacy"] = result["refactored"]
              /\ returned["legacy"] = returned["refactored"]

\* both versions answer a 200 whose key has no id with messageId "Unknown"
C14_Witness ==
    /\ DOMAIN pc = EquivCalls
    /\ SameCall /\ SameAnswer
    /\ Done("legacy") /\ Done("refactored")
    /\ op["legacy"] = "sendLocation"
    /\ Len(requests["legacy"]) = 1
    /\ response["legacy"].kind = "body" /\ response["legacy"].status = 200
    /\ MessageIdField("legacy") = JStr("Unknown")
    /\ MessageIdField("refactored") = JStr("Unknown")
    /\ GetProp(Structured("refactored"), "fromMe") = JBool(TRUE)
    /\ stages["legacy"] # stages["refactored"]

====
